---- MODULE Spec2Model ----
(***************************************************************************)
(* Model of pagerank.py: crawl, transition_model, sample_pagerank and      *)
(* iterate_pagerank.                                                       *)
(*                                                                         *)
(* Numbers.  Python floats are modelled as fixed-point numbers with eight  *)
(* decimal digits: the float x is the integer x * ONE, and every division  *)
(* and multiplication truncates to that grid, so that rounding error is    *)
(* part of the model and "sums to 1" is a statement within a tolerance.    *)
(* The damping factor is held in hundredths (DAMPING = 85 is 0.85).        *)
(* Pages are the numbers 1..n; random draws are nondeterministic choices.  *)
(***************************************************************************)
EXTENDS Integers, FiniteSets, Sequences

\* ---------------------------------------------------------------- bounds
MaxPages == 3
MaxSamples == 2
MaxFiles == 2

\* ------------------------------------------------------- program constants
DAMPING == 85

\* ------------------------------------------------------------- arithmetic
ONE == 10 ^ 8

\* the float d/100 of a damping factor held in hundredths
Fx(d) == d * (ONE \div 100)

\* d/100 * x, truncated, without an intermediate product above 2^31
Times(d, x) == (x \div 100) * d + ((x % 100) * d) \div 100

RECURSIVE LongDiv(_, _, _, _)
LongDiv(q, rem, s, k) ==
    IF k = 0 THEN q
    ELSE LongDiv(q * 10 + (rem * 10) \div s, (rem * 10) % s, s, k - 1)

\* the float r / s of two floats, truncated (schoolbook division, 8 digits)
Quot(r, s) == LongDiv(r \div s, r % s, s, 8)

Abs(x) == IF x < 0 THEN -x ELSE x

RECURSIVE SumOver(_, _)
SumOver(f, S) ==
    IF S = {} THEN 0
    ELSE LET p == CHOOSE x \in S : TRUE IN f[p] + SumOver(f, S \ {p})

\* sum(f.values()) / sum(f[page] for page in corpus)
Total(f) == SumOver(f, DOMAIN f)

EmptyMap == [p \in {} |-> 0]

\* ------------------------------------------------------------ link graphs
\* the graphs crawl can return: keys 1..n, values subsets of the keys,
\* no page linking to itself
GraphsOn(n) ==
    {g \in [1..n -> SUBSET (1..n)] : \A p \in 1..n : p \notin g[p]}

Corpora == UNION {GraphsOn(n) : n \in 1..MaxPages}

Dampings == {10, DAMPING}

VARIABLES
    pc,              \* position of the program
    corpus,          \* the link graph passed to the estimators
    damping,         \* the damping factor, in hundredths
    distribution,    \* transition_model: the returned mapping
    page,            \* transition_model: the page argument
    counts,          \* sample_pagerank: table of link weights
    pagerank,        \* sample_pagerank: visit counts, then the result
    current_page,    \* sample_pagerank: position of the walk
    num_samples,     \* sample_pagerank: argument
    i,               \* sample_pagerank: loop index
    draw,            \* sample_pagerank: random.random() < damping of the last step
    page_ranks,      \* iterate_pagerank: ranks the pass starts from
    new_page_ranks,  \* iterate_pagerank: ranks the pass computes
    ranks,           \* iterate_pagerank: the returned mapping
    run,             \* 1 in iterate_pagerank, 2 in the relaxation run again
    first_ranks,     \* the mapping returned by run 1
    directory,       \* crawl: the files of the directory
    listed,          \* crawl: the file names os.listdir has yielded so far
    pages,           \* crawl: the dictionary being built
    keys,            \* crawl: insertion order of pages
    j                \* crawl: position of the second loop in keys

vars == <<pc, corpus, damping, distribution, page, counts, pagerank,
          current_page, num_samples, i, draw, page_ranks, new_page_ranks,
          ranks, run, first_ranks, directory, listed, pages, keys, j>>

sampleVars == <<counts, pagerank, current_page, num_samples, i, draw>>
iterateVars == <<page_ranks, new_page_ranks, ranks, run, first_ranks>>
crawlVars == <<directory, listed, pages, keys, j>>
transitionVars == <<distribution, page>>

\* ------------------------------------------------------- transition_model
\* transition_model without the branch for a page that has no links
transition_model_no_sink_branch(c, pg, damping_factor) ==
    [p \in DOMAIN c |->
        IF p \in c[pg]
        THEN Fx(damping_factor) \div Cardinality(c[pg])
        ELSE (ONE - Fx(damping_factor)) \div Cardinality(DOMAIN c)]

transition_model(c, pg, damping_factor) ==
    LET total_pages == Cardinality(DOMAIN c) IN
    IF Cardinality(c[pg]) = 0
    THEN [p \in DOMAIN c |-> ONE \div total_pages]
    ELSE [p \in DOMAIN c |->
            IF p \in c[pg]
            THEN Fx(damping_factor) \div Cardinality(c[pg])
            ELSE (ONE - Fx(damping_factor)) \div total_pages]

CallTransitionModel ==
    /\ pc = "main"
    /\ \E pg \in DOMAIN corpus :
        /\ page' = pg
        /\ distribution' = transition_model(corpus, pg, damping)
    /\ pc' = "transition_done"
    /\ UNCHANGED <<corpus, damping, sampleVars, iterateVars, crawlVars>>

\* ------------------------------------------------------- iterate_pagerank
\* a threshold no pass can get below
threshold_zero(c) == 0

threshold(c) == (ONE \div 1000) \div Cardinality(DOMAIN c)

\* Relax dividing a rank by the number of pages, not of the page's links
RelaxDividedByN(c, d, pr) ==
    [p \in DOMAIN c |->
        (ONE - Fx(d)) \div Cardinality(DOMAIN c)
        + Times(d, SumOver([link \in DOMAIN c |->
                               pr[link] \div Cardinality(DOMAIN c)],
                           {link \in DOMAIN c : p \in c[link]}))]

\* Relax summing over the pages a page links to, not the pages linking to it
RelaxOutbound(c, d, pr) ==
    [p \in DOMAIN c |->
        (ONE - Fx(d)) \div Cardinality(DOMAIN c)
        + Times(d, SumOver([link \in DOMAIN c |->
                               pr[link] \div Cardinality(c[link])],
                           {link \in DOMAIN c : link \in c[p] /\ c[link] # {}}))]

\* one pass of the relaxation: new_page_ranks from page_ranks
Relax(c, d, pr) ==
    LET N == Cardinality(DOMAIN c) IN
    [p \in DOMAIN c |->
        (ONE - Fx(d)) \div N
        + Times(d, SumOver([link \in DOMAIN c |->
                               pr[link] \div Cardinality(c[link])],
                           {link \in DOMAIN c : p \in c[link]}))]

Diff(c, a, b) == SumOver([p \in DOMAIN c |-> Abs(a[p] - b[p])], DOMAIN c)

Normalize(c, pr) ==
    LET normalization_factor == SumOver(pr, DOMAIN c) IN
    [p \in DOMAIN c |-> Quot(pr[p], normalization_factor)]

IterateStart ==
    /\ pc = "main"
    /\ page_ranks' = [p \in DOMAIN corpus |-> ONE \div Cardinality(DOMAIN corpus)]
    /\ pc' = "iterate"
    /\ UNCHANGED <<corpus, damping, new_page_ranks, ranks, run, first_ranks,
                   sampleVars, crawlVars, transitionVars>>

\* a pass that fails the convergence test: page_ranks = new_page_ranks
IterateContinue ==
    /\ pc = "iterate"
    /\ LET new == Relax(corpus, damping, page_ranks) IN
        /\ ~(Diff(corpus, new, page_ranks) < threshold(corpus))
        /\ new_page_ranks' = new
        /\ page_ranks' = new
    /\ UNCHANGED <<pc, corpus, damping, ranks, run, first_ranks,
                   sampleVars, crawlVars, transitionVars>>

\* the assignment page_ranks = new_page_ranks placed before the break
IterateConvergedAdoptNew ==
    /\ pc = "iterate"
    /\ LET new == Relax(corpus, damping, page_ranks) IN
        /\ Diff(corpus, new, page_ranks) < threshold(corpus)
        /\ new_page_ranks' = new
        /\ page_ranks' = new
    /\ pc' = "normalize"
    /\ UNCHANGED <<corpus, damping, ranks, run, first_ranks,
                   sampleVars, crawlVars, transitionVars>>

\* a pass that passes the convergence test: break before the assignment
IterateConverged ==
    /\ pc = "iterate"
    /\ LET new == Relax(corpus, damping, page_ranks) IN
        /\ Diff(corpus, new, page_ranks) < threshold(corpus)
        /\ new_page_ranks' = new
    /\ pc' = "normalize"
    /\ UNCHANGED <<corpus, damping, page_ranks, ranks, run, first_ranks,
                   sampleVars, crawlVars, transitionVars>>

IterateReturn ==
    /\ pc = "normalize"
    /\ ranks' = Normalize(corpus, page_ranks)
    /\ pc' = "iterate_done"
    /\ UNCHANGED <<corpus, damping, page_ranks, new_page_ranks, run,
                   first_ranks, sampleVars, crawlVars, transitionVars>>

\* the relaxation run again from the returned mapping instead of 1/N
IterateAgain ==
    /\ pc = "iterate_done"
    /\ run = 1
    /\ first_ranks' = ranks
    /\ page_ranks' = ranks
    /\ run' = 2
    /\ pc' = "iterate"
    /\ UNCHANGED <<corpus, damping, new_page_ranks, ranks,
                   sampleVars, crawlVars, transitionVars>>

\* -------------------------------------------------------- sample_pagerank
\* steps 1 and 2: the count of every link of a page, divided by their total
TransitionCounts(c) ==
    [pg \in {p \in DOMAIN c : c[p] # {}} |->
        LET cnt == [link \in c[pg] |-> 1]
            total == Total(cnt)
        IN [link \in c[pg] |-> (cnt[link] * ONE) \div total]]

\* Visit that sets the count to 1 instead of adding 1
VisitOverwrite(pr, cp) ==
    [p \in DOMAIN pr \cup {cp} |-> IF p = cp THEN 1 ELSE pr[p]]

\* pagerank[current_page] = pagerank.get(current_page, 0) + 1
Visit(pr, cp) ==
    [p \in DOMAIN pr \cup {cp} |->
        IF p = cp
        THEN (IF cp \in DOMAIN pr THEN pr[cp] ELSE 0) + 1
        ELSE pr[p]]

\* random.choices(keys, weights): a key of positive weight
WeightedChoices(w) == {k \in DOMAIN w : w[k] > 0}

\* pagerank[page] /= total, for every page of pagerank
NormalizeCounts(pr) ==
    LET total == Total(pr) IN
    [p \in DOMAIN pr |-> (pr[p] * ONE) \div total]

SampleStart ==
    /\ pc = "main"
    /\ \E n \in 1..MaxSamples : num_samples' = n
    /\ counts' = TransitionCounts(corpus)
    /\ pagerank' = EmptyMap
    /\ current_page' \in DOMAIN corpus
    /\ i' = 0
    /\ draw' = FALSE
    /\ pc' = "walk"
    /\ UNCHANGED <<corpus, damping, iterateVars, crawlVars, transitionVars>>

\* random.random() < damping: random.choice over all pages
SampleBelowDamping ==
    /\ pc = "walk"
    /\ i < num_samples
    /\ pagerank' = Visit(pagerank, current_page)
    /\ draw' = TRUE
    /\ current_page' \in DOMAIN corpus
    /\ i' = i + 1
    /\ UNCHANGED <<pc, corpus, damping, counts, num_samples,
                   iterateVars, crawlVars, transitionVars>>

\* otherwise, current_page in counts: random.choices over its links
SampleFollowCounts ==
    /\ pc = "walk"
    /\ i < num_samples
    /\ current_page \in DOMAIN counts
    /\ pagerank' = Visit(pagerank, current_page)
    /\ draw' = FALSE
    /\ current_page' \in WeightedChoices(counts[current_page])
    /\ i' = i + 1
    /\ UNCHANGED <<pc, corpus, damping, counts, num_samples,
                   iterateVars, crawlVars, transitionVars>>

\* otherwise, current_page not in counts: random.choice over all pages
SampleNoCounts ==
    /\ pc = "walk"
    /\ i < num_samples
    /\ current_page \notin DOMAIN counts
    /\ pagerank' = Visit(pagerank, current_page)
    /\ draw' = FALSE
    /\ current_page' \in DOMAIN corpus
    /\ i' = i + 1
    /\ UNCHANGED <<pc, corpus, damping, counts, num_samples,
                   iterateVars, crawlVars, transitionVars>>

SampleReturn ==
    /\ pc = "walk"
    /\ i = num_samples
    /\ pagerank' = NormalizeCounts(pagerank)
    /\ pc' = "sample_done"
    /\ UNCHANGED <<corpus, damping, counts, current_page, num_samples, i,
                   draw, iterateVars, crawlVars, transitionVars>>

\* ------------------------------------------------------------------ crawl
\* names a link can carry: the file names 1..MaxFiles, and 0 for a name that
\* is no file of the directory
Names == 0..MaxFiles

\* a file: whether its name ends with ".html", and the hrefs re.findall
\* returns for its contents (a file that is not opened has none)
Files ==
    {[html |-> TRUE, hrefs |-> h] : h \in SUBSET Names}
        \cup {[html |-> FALSE, hrefs |-> {}]}

Directories == UNION {[1..n -> Files] : n \in 0..MaxFiles}

\* set(links) - {filename}
ReadLinks(links, filename) == links \ {filename}

\* the second loop keeping every link
FilterLinksKeepAll(links, pgs) == links

\* set(link for link in pages[filename] if link in pages)
FilterLinks(links, pgs) == {link \in links : link \in DOMAIN pgs}

\* the first loop, a file whose name does not end with ".html": continue
CrawlSkip ==
    /\ pc = "crawl"
    /\ \E filename \in DOMAIN directory \ listed :
        /\ ~directory[filename].html
        /\ listed' = listed \cup {filename}
    /\ UNCHANGED <<pc, corpus, damping, directory, pages, keys, j,
                   sampleVars, iterateVars, transitionVars>>

\* the first loop, an HTML file
CrawlRead ==
    /\ pc = "crawl"
    /\ \E filename \in DOMAIN directory \ listed :
        /\ directory[filename].html
        /\ listed' = listed \cup {filename}
        /\ pages' = [f \in DOMAIN pages \cup {filename} |->
                        IF f = filename
                        THEN ReadLinks(directory[filename].hrefs, filename)
                        ELSE pages[f]]
        /\ keys' = Append(keys, filename)
    /\ UNCHANGED <<pc, corpus, damping, directory, j,
                   sampleVars, iterateVars, transitionVars>>

\* the second loop, in the insertion order of pages
CrawlFilter ==
    /\ pc = "crawl"
    /\ listed = DOMAIN directory
    /\ j <= Len(keys)
    /\ pages' = [pages EXCEPT ![keys[j]] = FilterLinks(pages[keys[j]], pages)]
    /\ j' = j + 1
    /\ UNCHANGED <<pc, corpus, damping, directory, listed, keys,
                   sampleVars, iterateVars, transitionVars>>

CrawlReturn ==
    /\ pc = "crawl"
    /\ listed = DOMAIN directory
    /\ j > Len(keys)
    /\ corpus' = pages
    /\ pc' = "crawl_done"
    /\ UNCHANGED <<damping, directory, listed, pages, keys, j,
                   sampleVars, iterateVars, transitionVars>>

\* ------------------------------------------------------------ initial state
\* no function has been called yet
Idle ==
    /\ distribution = EmptyMap
    /\ page = 0
    /\ counts = EmptyMap
    /\ pagerank = EmptyMap
    /\ current_page = 0
    /\ num_samples = 0
    /\ i = 0
    /\ draw = FALSE
    /\ page_ranks = EmptyMap
    /\ new_page_ranks = EmptyMap
    /\ ranks = EmptyMap
    /\ run = 1
    /\ first_ranks = EmptyMap
    /\ listed = {}
    /\ pages = EmptyMap
    /\ keys = <<>>
    /\ j = 1

\* an estimator is about to be called on a link graph
Init ==
    /\ pc = "main"
    /\ corpus \in Corpora
    /\ damping \in Dampings
    /\ directory = EmptyMap
    /\ Idle

\* crawl is about to be called on a directory
InitCrawl ==
    /\ pc = "crawl"
    /\ corpus = EmptyMap
    /\ damping = DAMPING
    /\ directory \in Directories
    /\ Idle

NextTransition == CallTransitionModel

NextIterate ==
    \/ IterateStart
    \/ IterateContinue
    \/ IterateConverged
    \/ IterateReturn

NextAgain == NextIterate \/ IterateAgain

NextSample ==
    \/ SampleStart
    \/ SampleBelowDamping
    \/ SampleFollowCounts
    \/ SampleNoCounts
    \/ SampleReturn

NextCrawl ==
    \/ CrawlSkip
    \/ CrawlRead
    \/ CrawlFilter
    \/ CrawlReturn

Next == NextSample \/ NextIterate

Spec == Init /\ [][Next]_vars
SpecSample == Init /\ [][NextSample]_vars
SpecCrawl == InitCrawl /\ [][NextCrawl]_vars
SpecTransition == Init /\ [][NextTransition]_vars
SpecIterate == Init /\ [][NextIterate]_vars
SpecAgain == Init /\ [][NextAgain]_vars
FairIterate == SpecIterate /\ WF_vars(NextIterate)


\* ================================================================= claims
\* the tolerance of "sums to 1.0": 1e-6
Tolerance == ONE \div 1000000

HasSink(c) == \E p \in DOMAIN c : c[p] = {}

\* the three-page chain {A: {B}, B: {C}, C: {}}
Chain == [p \in 1..3 |-> IF p < 3 THEN {p + 1} ELSE {}]

\* C1: the probabilities returned by transition_model sum to 1 (within the
\* tolerance) for every valid graph, page and damping factor, for a sink
\* page and for a page with outbound links alike.
C1_TransitionSumsToOne ==
    pc = "transition_done" => Abs(Total(distribution) - ONE) <= Tolerance

\* C2: the visit counts of sample_pagerank total exactly k after k loop
\* steps, so the values it returns sum to 1, and the values returned by
\* iterate_pagerank sum to 1 (both within the tolerance).
C2_EstimatorsSumToOne ==
    /\ pc = "walk" => Total(pagerank) = i
    /\ pc = "sample_done" =>
        /\ i = num_samples
        /\ Abs(Total(pagerank) - ONE) <= Tolerance
    /\ pc = "iterate_done" => Abs(Total(ranks) - ONE) <= Tolerance

C2_Witness ==
    /\ pc = "sample_done"
    /\ num_samples >= 2
    /\ Cardinality(DOMAIN pagerank) >= 2
    /\ Abs(Total(pagerank) - ONE) <= Tolerance

\* C3: the mapping sample_pagerank returns has exactly the keys of the link
\* graph: a page visited during the walk has a probability above 0, and a
\* page never visited is present with probability 0.
C3_SampleOverAllPages ==
    [][(pc = "walk" /\ pc' = "sample_done") =>
        /\ DOMAIN pagerank' = DOMAIN corpus
        /\ \A p \in DOMAIN corpus :
            IF p \in DOMAIN pagerank
            THEN pagerank'[p] > 0
            ELSE pagerank'[p] = 0]_vars

\* C4: running the relaxation again from the mapping iterate_pagerank
\* returned changes the result by less than the convergence threshold
\* (sum over the pages of the absolute differences), for every valid graph,
\* graphs with sink pages included.
C4_RerunWithinThreshold ==
    (pc = "iterate_done" /\ run = 2) =>
        Diff(corpus, ranks, first_ranks) < threshold(corpus)

\* C4 as amended: the same, for the graphs that have no sink page.
C4_RerunWithinThresholdNoSink ==
    (pc = "iterate_done" /\ run = 2 /\ ~HasSink(corpus)) =>
        Diff(corpus, ranks, first_ranks) < threshold(corpus)

C4_Witness ==
    /\ pc = "iterate_done"
    /\ run = 2
    /\ ~HasSink(corpus)
    /\ \E p, q \in DOMAIN corpus : first_ranks[p] # first_ranks[q]
    /\ Diff(corpus, ranks, first_ranks) < threshold(corpus)

\* C5: in a step of the walk taken from a page that has outbound links, the
\* branch of a draw below damping moves to a page of graph[current], and the
\* other branch moves to a page chosen among all pages.
C5_BelowDampingFollowsLink ==
    [][(pc = "walk" /\ i' = i + 1 /\ corpus[current_page] # {}) =>
        /\ draw' => current_page' \in corpus[current_page]
        /\ ~draw' => current_page' \in DOMAIN corpus]_vars

\* C6: on the three-page chain with damping 0.85, iterate_pagerank
\* terminates and returns ranks with rank(C) > rank(B) that sum to 1.
C6_ChainRanks ==
    (pc = "main" /\ corpus = Chain /\ damping = DAMPING) ~>
        (/\ pc = "iterate_done"
         /\ corpus = Chain
         /\ ranks[3] > ranks[2]
         /\ Abs(Total(ranks) - ONE) <= Tolerance)

C6_Witness ==
    /\ pc = "iterate_done"
    /\ corpus = Chain
    /\ damping = DAMPING
    /\ ranks[3] > ranks[2]
    /\ ranks[2] > ranks[1]

\* the files of the directory whose name ends with ".html"
HtmlFiles == {f \in DOMAIN directory : directory[f].html}

\* C7: whatever the files and the order in which crawl reads them, every
\* value of the graph it returns is a subset of the key set and no page
\* links to itself: a link to a name that is no page of the corpus is
\* dropped, and a link to a page of the corpus is kept, also when that page
\* is read after the linking page.
C7_CrawlGraphValid ==
    pc = "crawl_done" =>
        /\ DOMAIN corpus = HtmlFiles
        /\ \A f \in DOMAIN corpus :
            /\ corpus[f] \subseteq DOMAIN corpus
            /\ f \notin corpus[f]
            /\ corpus[f] = (directory[f].hrefs \cap HtmlFiles) \ {f}

C7_Witness ==
    /\ pc = "crawl_done"
    /\ Len(keys) = 2
    /\ keys[2] \in corpus[keys[1]]
    /\ \E link \in directory[keys[1]].hrefs :
        link # keys[1] /\ link \notin corpus[keys[1]]

C9_AdoptsNewRanks ==
    pc = "iterate_done" => ranks = Normalize(corpus, new_page_ranks)

\* C9 as amended: when the convergence test succeeds, the ranks normalized
\* and returned are the old_rank values that last pass started from; the
\* new_rank values it computed, within the threshold of them, are dropped.
C9_AdoptsOldRanks ==
    pc = "iterate_done" =>
        /\ ranks = Normalize(corpus, page_ranks)
        /\ new_page_ranks = Relax(corpus, damping, page_ranks)
        /\ Diff(corpus, new_page_ranks, page_ranks) < threshold(corpus)

C9_Witness ==
    /\ pc = "iterate_done"
    /\ new_page_ranks # page_ranks
    /\ ranks # Normalize(corpus, new_page_ranks)

\* C10: for every valid graph and damping factor the relaxation loop
\* reaches a pass whose total change is below the threshold, and
\* iterate_pagerank returns.
C10_IterateTerminates == <>(pc = "iterate_done")

C10_Witness ==
    /\ pc = "iterate_done"
    /\ damping = DAMPING
    /\ ~HasSink(corpus)
    /\ Cardinality(DOMAIN corpus) = MaxPages
    /\ Diff(corpus, new_page_ranks, page_ranks) \in 1..(threshold(corpus) - 1)

====
